---- MODULE Spec2Model ----
(***************************************************************************)
(* Model of step-3/step-3.cc: the distributed convection-diffusion-        *)
(* reaction driver CDRProblem<dim>.  NProcs identical processes (SPMD)     *)
(* each run main(): the constructor, setup_geometry, setup_matrices and    *)
(* time_iterate.  Vectors and matrices are kept as symbolic terms that     *)
(* record what they were computed from; collective library calls are       *)
(* split in a Begin (the caller enters) and an End (every process has      *)
(* entered, the caller leaves with the result).                            *)
(***************************************************************************)
EXTENDS Integers, Sequences, FiniteSets, TLC

\* ------------------------------------------------------------------ bounds
NProcs == 2
MaxSteps == 3
MaxSaveInterval == 3
\* Significant bits of the floating-point numbers (53 in a double).
MantissaBits == 2

Procs == 0 .. (NProcs - 1)

\* Template arguments CDRProblem<dim> may be instantiated with.
Dims == {1, 2, 3}

\* Time ranges of the run configurations explored: the start time and the
\* length of one step (stop_time is the floating-point number nearest to
\* start_time + n_time_steps * len).
TimeRanges == { [start |-> 0, len |-> 1], [start |-> 1, len |-> 2] }

\* The convection field of main(), "-y,x".
MainConvectionField == <<"-", "y", ",", "x">>

\* Convection-field specifications explored, as character sequences:
\* "-y,x", "x", "x,x", ",x", "x,", "x,x,x" and ",,".
ConvectionFields ==
  { MainConvectionField,
    <<"x">>,
    <<"x", ",", "x">>,
    <<",", "x">>,
    <<"x", ",">>,
    <<"x", ",", "x", ",", "x">>,
    <<",", ",">> }

\* ------------------------------------------------------- std::string model
\* std::string::npos, the largest value of the unsigned size type; size
\* arithmetic is modulo SizeMod (the width is reduced to 16 bits, the wrap of
\* npos + 1 to 0 is the same at every width).
Npos == 65535
SizeMod == Npos + 1

RECURSIVE FindFrom(_, _, _)
FindFrom(s, c, i) ==
  IF i > Len(s) THEN Npos
  ELSE IF s[i] = c THEN i - 1
  ELSE FindFrom(s, c, i + 1)

\* s.find_first_of(c): zero-based position of the first c, or npos.
FindFirstOf(s, c) == FindFrom(s, c, 1)

Min(a, b) == IF a < b THEN a ELSE b

\* s.substr(pos, n): the characters [pos, pos + min(n, size - pos)).
\* (pos > size throws std::out_of_range; it cannot happen for the calls made.)
Substr(s, pos, n) ==
  LET cnt == Min(n, Len(s) - pos)
  IN  IF cnt <= 0 THEN <<>> ELSE SubSeq(s, pos + 1, pos + cnt)

\* The two-element vector built from parameters.convection_field.
SplitConvectionField(s) ==
  << Substr(s, 0, FindFirstOf(s, ",")),
     Substr(s, (FindFirstOf(s, ",") + 1) % SizeMod, Npos) >>

RECURSIVE CountChar(_, _)
CountChar(s, c) ==
  IF s = <<>> THEN 0
  ELSE (IF Head(s) = c THEN 1 ELSE 0) + CountChar(Tail(s), c)

\* -------------------------------------------- Utilities::int_to_string
Digit(d) ==
  CASE d = 0 -> "0" [] d = 1 -> "1" [] d = 2 -> "2" [] d = 3 -> "3"
    [] d = 4 -> "4" [] d = 5 -> "5" [] d = 6 -> "6" [] d = 7 -> "7"
    [] d = 8 -> "8" [] d = 9 -> "9"

RECURSIVE NeededDigits(_)
NeededDigits(i) == IF i < 10 THEN 1 ELSE 1 + NeededDigits(i \div 10)

RECURSIVE PaddedDigits(_, _)
PaddedDigits(i, digits) ==
  IF digits = 0 THEN ""
  ELSE PaddedDigits(i \div 10, digits - 1) \o Digit(i % 10)

\* int_to_string(i): as many digits as i needs.
IntToString(i) == PaddedDigits(i, NeededDigits(i))

\* int_to_string(i, digits): zero-padded to the given number of digits.
IntToStringPadded(i, digits) == PaddedDigits(i, digits)

\* ------------------------------------------------------------ double model
\* Times are floating-point numbers with MantissaBits significant bits and
\* smallest unit 1: the naturals m * 2^e with m < 2^MantissaBits.  Every
\* operation rounds its exact result to the nearest such number, ties to the
\* even mantissa.
RECURSIVE Ulp(_)
Ulp(x) == IF x < 2 ^ MantissaBits THEN 1 ELSE 2 * Ulp(x \div 2)

\* The floating-point number nearest to the quotient a / n.
RoundDiv(a, n) ==
  LET q == a \div n
      u == Ulp(q)
      lo == (q \div u) * u
      hi == lo + u
  IN  IF 2 * a < n * (lo + hi) THEN lo
      ELSE IF 2 * a > n * (lo + hi) THEN hi
      ELSE IF (lo \div u) % 2 = 0 THEN lo ELSE hi

Round(x) == RoundDiv(x, 1)

\* a + b, a - b and a / n on doubles.
FAdd(a, b) == Round(a + b)
FSub(a, b) == Round(a - b)
FDiv(a, n) == RoundDiv(a, n)

\* ------------------------------------------------------------------- state
VARIABLES
  dim,                      \* template argument of CDRProblem<dim>
  debug_build,              \* TRUE when Assert() is compiled in
  lenient_parser,           \* TRUE when the expression evaluator accepts
                            \* comma-separated sub-expressions
  parameters,               \* const CDR::Parameters parameters
  pc,                       \* position of each process in main()
  coll,                     \* number of collectives each process has entered
  time_step,                \* const double time_step
  convection_function,      \* expressions held by convection_function
  forcing_time,             \* forcing_function.get_time()
  mesh,                     \* triangulation + dof_handler
  constraints,              \* ConstraintMatrix constraints
  locally_relevant_solution,
  system_rhs,
  system_matrix,
  preconditioner,
  completely_distributed_solution,
  current_time,
  time_step_n,
  solver_result,            \* outcome of the collective solve of each step
  files,                    \* the files on disk, by name
  trace                     \* per process: the operations completed so far

vars ==
  << dim, debug_build, lenient_parser, parameters, pc, coll, time_step, convection_function,
     forcing_time, mesh, constraints, locally_relevant_solution, system_rhs,
     system_matrix, preconditioner, completely_distributed_solution,
     current_time, time_step_n, solver_result, files, trace >>

configVars == << dim, debug_build, lenient_parser, parameters >>

\* ---------------------------------------------------------- symbolic data
NoMatrix == [state |-> "empty", dt |-> 0, field |-> <<>>, condensed |-> FALSE]
NoVector == [init |-> FALSE, val |-> <<>>, distributed |-> FALSE]
ZeroVector == [init |-> TRUE, val |-> <<>>, distributed |-> FALSE]
NoRhs == [state |-> "empty", prev |-> <<>>, t |-> 0]
NoPreconditioner == [built |-> FALSE, from |-> NoMatrix]

\* CDR::create_system_matrix: the operator as a term over its inputs.
CreateSystemMatrix(field, dt, cons) ==
  [state |-> "assembled", dt |-> dt, field |-> field,
   condensed |-> (cons = "closed")]

\* CDR::create_system_rhs: the load vector as a term over the previous
\* ghosted solution and the forcing function's time.
CreateSystemRhs(prev, t) ==
  [state |-> "assembled", prev |-> prev.val, t |-> t]

\* solver.solve(A, u, b, P): the new owned solution, one more step than the
\* solution the load vector was built from.
SolveResult(rhs) ==
  [init |-> TRUE, val |-> Append(rhs.prev, rhs.t), distributed |-> FALSE]

\* ---------------------------------------------------------------- helpers
Log(p, e, s) == [trace EXCEPT ![p] = Append(@, [ev |-> e, step |-> s])]

\* A blocking collective: the caller counts itself in ...
EnterCollective(p) == [coll EXCEPT ![p] = @ + 1]
\* ... and leaves once every process has entered the same collective.
AllArrived(p) == \A q \in Procs : coll[q] >= coll[p]

\* ------------------------------------------------------ FunctionParser
HasEmptyClause(e) ==
  \/ e = <<>>
  \/ Head(e) = ","
  \/ e[Len(e)] = ","
  \/ \E i \in 1 .. (Len(e) - 1) : e[i] = "," /\ e[i + 1] = ","

\* One expression handed to the expression evaluator.  An empty
\* (sub)expression is a parse error; an expression holding several
\* comma-separated sub-expressions is accepted by a lenient evaluator only.
ExpressionOk(e, lenient) ==
  /\ ~ HasEmptyClause(e)
  /\ (CountChar(e, ",") > 0 => lenient)

\* Mutant of InitializeOk: the numbers of variables and of expressions are
\* not compared with the dimension and the number of components.
InitializeOk_NoCountChecks(d, n_components, n_variables, time_dependent, expressions, lenient) ==
  \A i \in 1 .. Len(expressions) : ExpressionOk(expressions[i], lenient)

\* FunctionParser<dim>::initialize(variables, expressions, ...) of a parser
\* with n_components components: the number of variables must be dim (+1
\* when time dependent), the number of expressions n_components, and every
\* expression must parse.
InitializeOk(d, n_components, n_variables, time_dependent, expressions, lenient) ==
  /\ n_variables = (IF time_dependent THEN d + 1 ELSE d)
  /\ Len(expressions) = n_components
  /\ \A i \in 1 .. Len(expressions) : ExpressionOk(expressions[i], lenient)

\* -------------------------------------------------------------------- Init
\* The construction as main() makes it, in a debug build.
MainConstruction(d, dbg, lenient, cf) ==
  d = 2 /\ dbg /\ ~ lenient /\ cf = MainConvectionField

\* The shortest run: one step, checkpointed.
ShortestRun(tr, n, k) == tr.start = 0 /\ tr.len = 1 /\ n = 1 /\ k = 1

\* The constructor reads the dimension, the build and the convection field
\* only, the time loop the time range, the step count and the save interval
\* only: every construction is explored with the shortest run, and every run
\* with the construction of main().
Init ==
  /\ \E d \in Dims, dbg \in BOOLEAN, lenient \in BOOLEAN,
        cf \in ConvectionFields, tr \in TimeRanges,
        n \in 1 .. MaxSteps, k \in 1 .. MaxSaveInterval :
       /\ MainConstruction(d, dbg, lenient, cf) \/ ShortestRun(tr, n, k)
       /\ dim = d
       /\ debug_build = dbg
       /\ lenient_parser = lenient
       /\ parameters = [convection_field |-> cf,
                        start_time |-> tr.start,
                        stop_time |-> Round(tr.start + n * tr.len),
                        n_time_steps |-> n,
                        save_interval |-> k]
  /\ pc = [p \in Procs |-> "main"]
  /\ coll = [p \in Procs |-> 0]
  /\ time_step = [p \in Procs |-> 0]
  /\ convection_function = [p \in Procs |-> <<>>]
  /\ forcing_time = [p \in Procs |-> 0]
  /\ mesh = [p \in Procs |-> "none"]
  /\ constraints = [p \in Procs |-> "empty"]
  /\ locally_relevant_solution = [p \in Procs |-> NoVector]
  /\ system_rhs = [p \in Procs |-> NoRhs]
  /\ system_matrix = [p \in Procs |-> NoMatrix]
  /\ preconditioner = [p \in Procs |-> NoPreconditioner]
  /\ completely_distributed_solution = [p \in Procs |-> NoVector]
  /\ current_time = [p \in Procs |-> 0]
  /\ time_step_n = [p \in Procs |-> 0]
  /\ solver_result = [s \in 0 .. MaxSteps |-> "pending"]
  /\ files = [name \in {} |-> 0]
  /\ trace = [p \in Procs |-> <<>>]

\* ------------------------------------------------------------- constructor
\* Mutant of Construct: forcing_function.set_time(start_time) is left out.
Construct_NoSetTime(p) ==
  /\ pc[p] = "main"
  /\ time_step' = [time_step EXCEPT ![p] =
        FDiv(FSub(parameters.stop_time, parameters.start_time),
             parameters.n_time_steps)]
  /\ LET convection_field == SplitConvectionField(parameters.convection_field)
         assert_ok == (debug_build => dim = 2)
         convection_ok ==
           InitializeOk(dim, dim, 2, FALSE, convection_field, lenient_parser)
         forcing_ok ==
           InitializeOk(dim, 1, 3, TRUE, << <<"f">> >>, lenient_parser)
     IN  IF assert_ok /\ convection_ok /\ forcing_ok
           THEN /\ pc' = [pc EXCEPT ![p] = "setup_geometry"]
                /\ convection_function' =
                     [convection_function EXCEPT ![p] = convection_field]
                /\ UNCHANGED forcing_time
           ELSE /\ pc' = [pc EXCEPT ![p] = "aborted"]
                /\ UNCHANGED << convection_function, forcing_time >>
  /\ trace' = Log(p, "construct", 0)
  /\ UNCHANGED << configVars, coll, mesh, constraints,
                  locally_relevant_solution, system_rhs, system_matrix,
                  preconditioner, completely_distributed_solution,
                  current_time, time_step_n, solver_result, files >>

\* CDRProblem<dim>::CDRProblem, called from main().  A failed Assert aborts
\* the process; an exception thrown by initialize() is not caught by main().
Construct(p) ==
  /\ pc[p] = "main"
  /\ time_step' = [time_step EXCEPT ![p] =
        FDiv(FSub(parameters.stop_time, parameters.start_time),
             parameters.n_time_steps)]
  /\ LET convection_field == SplitConvectionField(parameters.convection_field)
         assert_ok == (debug_build => dim = 2)
         convection_ok ==
           InitializeOk(dim, dim, 2, FALSE, convection_field, lenient_parser)
         forcing_ok ==
           InitializeOk(dim, 1, 3, TRUE, << <<"f">> >>, lenient_parser)
     IN  IF assert_ok /\ convection_ok /\ forcing_ok
           THEN /\ pc' = [pc EXCEPT ![p] = "setup_geometry"]
                /\ convection_function' =
                     [convection_function EXCEPT ![p] = convection_field]
                /\ forcing_time' =
                     [forcing_time EXCEPT ![p] = parameters.start_time]
           ELSE /\ pc' = [pc EXCEPT ![p] = "aborted"]
                /\ UNCHANGED << convection_function, forcing_time >>
  /\ trace' = Log(p, "construct", 0)
  /\ UNCHANGED << configVars, coll, mesh, constraints,
                  locally_relevant_solution, system_rhs, system_matrix,
                  preconditioner, completely_distributed_solution,
                  current_time, time_step_n, solver_result, files >>

\* ---------------------------------------------------------- setup_geometry
\* hyper_shell, set_manifold, refine_global and dof_handler.initialize on the
\* distributed triangulation (a collective) ...
SetupGeometryBegin(p) ==
  /\ pc[p] = "setup_geometry"
  /\ pc' = [pc EXCEPT ![p] = "setup_geometry_wait"]
  /\ coll' = EnterCollective(p)
  /\ UNCHANGED << configVars, time_step, convection_function, forcing_time,
                  mesh, constraints, locally_relevant_solution, system_rhs,
                  system_matrix, preconditioner,
                  completely_distributed_solution, current_time, time_step_n,
                  solver_result, files, trace >>

\* ... then the index sets and locally_relevant_solution.reinit (all zero).
SetupGeometryEnd(p) ==
  /\ pc[p] = "setup_geometry_wait"
  /\ AllArrived(p)
  /\ mesh' = [mesh EXCEPT ![p] = "built"]
  /\ locally_relevant_solution' =
       [locally_relevant_solution EXCEPT ![p] = ZeroVector]
  /\ pc' = [pc EXCEPT ![p] = "setup_constraints"]
  /\ trace' = Log(p, "setup_geometry", 0)
  /\ UNCHANGED << configVars, coll, time_step, convection_function,
                  forcing_time, constraints, system_rhs, system_matrix,
                  preconditioner, completely_distributed_solution,
                  current_time, time_step_n, solver_result, files >>

\* ---------------------------------------------------------- setup_matrices
\* Mutant of SetupConstraints: the constraints are filled but close() is
\* left out.
SetupConstraints_NoClose(p) ==
  /\ pc[p] = "setup_constraints"
  /\ constraints' = [constraints EXCEPT ![p] = "open"]
  /\ pc' = [pc EXCEPT ![p] = "sparsity"]
  /\ trace' = Log(p, "constraints_close", 0)
  /\ UNCHANGED << configVars, coll, time_step, convection_function,
                  forcing_time, mesh, locally_relevant_solution, system_rhs,
                  system_matrix, preconditioner,
                  completely_distributed_solution, current_time, time_step_n,
                  solver_result, files >>

\* constraints.clear() ... constraints.close().
SetupConstraints(p) ==
  /\ pc[p] = "setup_constraints"
  /\ constraints' = [constraints EXCEPT ![p] = "closed"]
  /\ pc' = [pc EXCEPT ![p] = "sparsity"]
  /\ trace' = Log(p, "constraints_close", 0)
  /\ UNCHANGED << configVars, coll, time_step, convection_function,
                  forcing_time, mesh, locally_relevant_solution, system_rhs,
                  system_matrix, preconditioner,
                  completely_distributed_solution, current_time, time_step_n,
                  solver_result, files >>

\* make_sparsity_pattern and the collective distribute_sparsity_pattern ...
SparsityBegin(p) ==
  /\ pc[p] = "sparsity"
  /\ pc' = [pc EXCEPT ![p] = "sparsity_wait"]
  /\ coll' = EnterCollective(p)
  /\ UNCHANGED << configVars, time_step, convection_function, forcing_time,
                  mesh, constraints, locally_relevant_solution, system_rhs,
                  system_matrix, preconditioner,
                  completely_distributed_solution, current_time, time_step_n,
                  solver_result, files, trace >>

\* ... then system_rhs.reinit and system_matrix.reinit.
SparsityEnd(p) ==
  /\ pc[p] = "sparsity_wait"
  /\ AllArrived(p)
  /\ system_rhs' = [system_rhs EXCEPT ![p] = [NoRhs EXCEPT !.state = "zero"]]
  /\ system_matrix' =
       [system_matrix EXCEPT ![p] = [NoMatrix EXCEPT !.state = "reinit"]]
  /\ pc' = [pc EXCEPT ![p] = "assemble_matrix"]
  /\ trace' = Log(p, "sparsity", 0)
  /\ UNCHANGED << configVars, coll, time_step, convection_function,
                  forcing_time, mesh, constraints, locally_relevant_solution,
                  preconditioner, completely_distributed_solution,
                  current_time, time_step_n, solver_result, files >>

\* Mutant of AssembleMatrix: the preconditioner is built right after the
\* local assembly, the compress is left out.
AssembleMatrix_SkipsCompress(p) ==
  /\ pc[p] = "assemble_matrix"
  /\ system_matrix' = [system_matrix EXCEPT ![p] =
        CreateSystemMatrix(convection_function[p], time_step[p],
                           constraints[p])]
  /\ pc' = [pc EXCEPT ![p] = "precondition"]
  /\ trace' = Log(p, "create_system_matrix", 0)
  /\ UNCHANGED << configVars, coll, time_step, convection_function,
                  forcing_time, mesh, constraints, locally_relevant_solution,
                  system_rhs, preconditioner,
                  completely_distributed_solution, current_time, time_step_n,
                  solver_result, files >>

\* CDR::create_system_matrix(..., system_matrix): the local assembly.
AssembleMatrix(p) ==
  /\ pc[p] = "assemble_matrix"
  /\ system_matrix' = [system_matrix EXCEPT ![p] =
        CreateSystemMatrix(convection_function[p], time_step[p],
                           constraints[p])]
  /\ pc' = [pc EXCEPT ![p] = "matrix_compress"]
  /\ trace' = Log(p, "create_system_matrix", 0)
  /\ UNCHANGED << configVars, coll, time_step, convection_function,
                  forcing_time, mesh, constraints, locally_relevant_solution,
                  system_rhs, preconditioner,
                  completely_distributed_solution, current_time, time_step_n,
                  solver_result, files >>

\* system_matrix.compress(VectorOperation::add), a collective.
MatrixCompressBegin(p) ==
  /\ pc[p] = "matrix_compress"
  /\ pc' = [pc EXCEPT ![p] = "matrix_compress_wait"]
  /\ coll' = EnterCollective(p)
  /\ UNCHANGED << configVars, time_step, convection_function, forcing_time,
                  mesh, constraints, locally_relevant_solution, system_rhs,
                  system_matrix, preconditioner,
                  completely_distributed_solution, current_time, time_step_n,
                  solver_result, files, trace >>

MatrixCompressEnd(p) ==
  /\ pc[p] = "matrix_compress_wait"
  /\ AllArrived(p)
  /\ system_matrix' = [system_matrix EXCEPT ![p].state = "compressed"]
  /\ pc' = [pc EXCEPT ![p] = "precondition"]
  /\ trace' = Log(p, "matrix_compress", 0)
  /\ UNCHANGED << configVars, coll, time_step, convection_function,
                  forcing_time, mesh, constraints, locally_relevant_solution,
                  system_rhs, preconditioner,
                  completely_distributed_solution, current_time, time_step_n,
                  solver_result, files >>

\* preconditioner.initialize(system_matrix), a collective.
PreconditionBegin(p) ==
  /\ pc[p] = "precondition"
  /\ pc' = [pc EXCEPT ![p] = "precondition_wait"]
  /\ coll' = EnterCollective(p)
  /\ UNCHANGED << configVars, time_step, convection_function, forcing_time,
                  mesh, constraints, locally_relevant_solution, system_rhs,
                  system_matrix, preconditioner,
                  completely_distributed_solution, current_time, time_step_n,
                  solver_result, files, trace >>

PreconditionEnd(p) ==
  /\ pc[p] = "precondition_wait"
  /\ AllArrived(p)
  /\ preconditioner' = [preconditioner EXCEPT ![p] =
        [built |-> TRUE, from |-> system_matrix[p]]]
  /\ pc' = [pc EXCEPT ![p] = "time_iterate"]
  /\ trace' = Log(p, "preconditioner", 0)
  /\ UNCHANGED << configVars, coll, time_step, convection_function,
                  forcing_time, mesh, constraints, locally_relevant_solution,
                  system_rhs, system_matrix,
                  completely_distributed_solution, current_time, time_step_n,
                  solver_result, files >>

\* ------------------------------------------------------------ time_iterate
\* Mutant of LoopTest: the loop condition written with <= instead of <.
LoopTest_Inclusive(n) ==
  IF n <= parameters.n_time_steps THEN "advance_time" ELSE "done"

\* The loop condition time_step_n < parameters.n_time_steps.
LoopTest(n) == IF n < parameters.n_time_steps THEN "advance_time" ELSE "done"

\* Mutant of CheckpointDue: the step counted from one.
CheckpointDue_FromOne(n) == (n + 1) % parameters.save_interval = 0

\* The checkpoint condition time_step_n % parameters.save_interval == 0.
CheckpointDue(n) == n % parameters.save_interval = 0

\* The per-process file name "solution-<n>.<rank, 4 digits>.vtu".
VtuName(n, rank) ==
  "solution-" \o IntToString(n) \o "." \o IntToStringPadded(rank, 4) \o ".vtu"

\* The manifest file name "solution-<n>.pvtu".
PvtuName(n) == "solution-" \o IntToString(n) \o ".pvtu"

\* Mutant of ManifestFilenames: the ranks listed run from 1 to the number of
\* processes.
ManifestFilenames_FromOne(n, n_mpi_processes) ==
  [i \in 1 .. n_mpi_processes |-> VtuName(n, i)]

\* The loop filling std::vector<std::string> filenames on rank 0.
ManifestFilenames(n, n_mpi_processes) ==
  [i \in 1 .. n_mpi_processes |-> VtuName(n, i - 1)]

\* Mutant of TimeIterateBegin: the initial state is written out as the file
\* labelled 0 before the loop starts.
TimeIterateBegin_WritesInitial(p) ==
  /\ pc[p] = "time_iterate"
  /\ completely_distributed_solution' =
       [completely_distributed_solution EXCEPT ![p] = ZeroVector]
  /\ current_time' = [current_time EXCEPT ![p] = parameters.start_time]
  /\ time_step_n' = [time_step_n EXCEPT ![p] = 0]
  /\ files' =
       (VtuName(0, p) :>
          [writer |-> p, step |-> 0,
           solution |-> locally_relevant_solution[p],
           filenames |-> <<>>]) @@ files
  /\ pc' = [pc EXCEPT ![p] = LoopTest(0)]
  /\ UNCHANGED << configVars, coll, time_step, convection_function,
                  forcing_time, mesh, constraints, locally_relevant_solution,
                  system_rhs, system_matrix, preconditioner, solver_result,
                  trace >>

\* completely_distributed_solution(locally_owned_dofs), current_time =
\* start_time, time_step_n = 0 and the first loop test.
TimeIterateBegin(p) ==
  /\ pc[p] = "time_iterate"
  /\ completely_distributed_solution' =
       [completely_distributed_solution EXCEPT ![p] = ZeroVector]
  /\ current_time' = [current_time EXCEPT ![p] = parameters.start_time]
  /\ time_step_n' = [time_step_n EXCEPT ![p] = 0]
  /\ pc' = [pc EXCEPT ![p] = LoopTest(0)]
  /\ UNCHANGED << configVars, coll, time_step, convection_function,
                  forcing_time, mesh, constraints, locally_relevant_solution,
                  system_rhs, system_matrix, preconditioner, solver_result,
                  files, trace >>

\* current_time += time_step; forcing_function.advance_time(time_step).
AdvanceTime(p) ==
  /\ pc[p] = "advance_time"
  /\ current_time' = [current_time EXCEPT ![p] = FAdd(@, time_step[p])]
  /\ forcing_time' = [forcing_time EXCEPT ![p] = FAdd(@, time_step[p])]
  /\ pc' = [pc EXCEPT ![p] = "assemble_rhs"]
  /\ trace' = Log(p, "advance_time", time_step_n[p])
  /\ UNCHANGED << configVars, coll, time_step, convection_function, mesh,
                  constraints, locally_relevant_solution, system_rhs,
                  system_matrix, preconditioner,
                  completely_distributed_solution, time_step_n,
                  solver_result, files >>

\* Mutant of AssembleRhs: the operator is assembled again with the rhs.
AssembleRhs_ReassemblesMatrix(p) ==
  /\ pc[p] = "assemble_rhs"
  /\ system_rhs' = [system_rhs EXCEPT ![p] =
        CreateSystemRhs(locally_relevant_solution[p], forcing_time[p])]
  /\ system_matrix' = [system_matrix EXCEPT ![p] =
        CreateSystemMatrix(convection_function[p], time_step[p],
                           constraints[p])]
  /\ pc' = [pc EXCEPT ![p] = "rhs_compress"]
  /\ trace' = Log(p, "assemble_rhs", time_step_n[p])
  /\ UNCHANGED << configVars, coll, time_step, convection_function,
                  forcing_time, mesh, constraints, locally_relevant_solution,
                  preconditioner, completely_distributed_solution,
                  current_time, time_step_n, solver_result, files >>

\* system_rhs = 0.0; CDR::create_system_rhs(..., system_rhs).
AssembleRhs(p) ==
  /\ pc[p] = "assemble_rhs"
  /\ system_rhs' = [system_rhs EXCEPT ![p] =
        CreateSystemRhs(locally_relevant_solution[p], forcing_time[p])]
  /\ pc' = [pc EXCEPT ![p] = "rhs_compress"]
  /\ trace' = Log(p, "assemble_rhs", time_step_n[p])
  /\ UNCHANGED << configVars, coll, time_step, convection_function,
                  forcing_time, mesh, constraints, locally_relevant_solution,
                  system_matrix, preconditioner,
                  completely_distributed_solution, current_time, time_step_n,
                  solver_result, files >>

\* system_rhs.compress(VectorOperation::add), a collective.
RhsCompressBegin(p) ==
  /\ pc[p] = "rhs_compress"
  /\ pc' = [pc EXCEPT ![p] = "rhs_compress_wait"]
  /\ coll' = EnterCollective(p)
  /\ UNCHANGED << configVars, time_step, convection_function, forcing_time,
                  mesh, constraints, locally_relevant_solution, system_rhs,
                  system_matrix, preconditioner,
                  completely_distributed_solution, current_time, time_step_n,
                  solver_result, files, trace >>

RhsCompressEnd(p) ==
  /\ pc[p] = "rhs_compress_wait"
  /\ AllArrived(p)
  /\ system_rhs' = [system_rhs EXCEPT ![p].state = "compressed"]
  /\ pc' = [pc EXCEPT ![p] = "solve"]
  /\ trace' = Log(p, "rhs_compress", time_step_n[p])
  /\ UNCHANGED << configVars, coll, time_step, convection_function,
                  forcing_time, mesh, constraints, locally_relevant_solution,
                  system_matrix, preconditioner,
                  completely_distributed_solution, current_time, time_step_n,
                  solver_result, files >>

\* SolverControl(n_dofs, 1e-6 * system_rhs.l2_norm()) and solver.solve(...):
\* collective reductions decide convergence, the same on every process.
SolveBegin(p) ==
  /\ pc[p] = "solve"
  /\ pc' = [pc EXCEPT ![p] = "solve_wait"]
  /\ coll' = EnterCollective(p)
  /\ UNCHANGED << configVars, time_step, convection_function, forcing_time,
                  mesh, constraints, locally_relevant_solution, system_rhs,
                  system_matrix, preconditioner,
                  completely_distributed_solution, current_time, time_step_n,
                  solver_result, files, trace >>

\* Mutant of SolveEnd: the failure is swallowed and the step goes on with the
\* last iterate.
SolveEnd_IgnoresFailure(p) ==
  /\ pc[p] = "solve_wait"
  /\ AllArrived(p)
  /\ \E r \in {"success", "failure"} :
       /\ solver_result[time_step_n[p]] \in {"pending", r}
       /\ solver_result' = [solver_result EXCEPT ![time_step_n[p]] = r]
       /\ completely_distributed_solution' =
            [completely_distributed_solution EXCEPT ![p] =
               SolveResult(system_rhs[p])]
       /\ pc' = [pc EXCEPT ![p] = "distribute"]
       /\ trace' = Log(p, IF r = "success" THEN "solve" ELSE "solve_failed",
                       time_step_n[p])
  /\ UNCHANGED << configVars, coll, time_step, convection_function,
                  forcing_time, mesh, constraints, locally_relevant_solution,
                  system_rhs, system_matrix, preconditioner, current_time,
                  time_step_n, files >>

\* The solve returns, or throws SolverControl::NoConvergence, which nothing
\* catches: the process terminates.
SolveEnd(p) ==
  /\ pc[p] = "solve_wait"
  /\ AllArrived(p)
  /\ \E r \in {"success", "failure"} :
       /\ solver_result[time_step_n[p]] \in {"pending", r}
       /\ solver_result' = [solver_result EXCEPT ![time_step_n[p]] = r]
       /\ IF r = "success"
            THEN /\ completely_distributed_solution' =
                      [completely_distributed_solution EXCEPT ![p] =
                         SolveResult(system_rhs[p])]
                 /\ pc' = [pc EXCEPT ![p] = "distribute"]
                 /\ trace' = Log(p, "solve", time_step_n[p])
            ELSE /\ UNCHANGED completely_distributed_solution
                 /\ pc' = [pc EXCEPT ![p] = "aborted"]
                 /\ trace' = Log(p, "solve_failed", time_step_n[p])
  /\ UNCHANGED << configVars, coll, time_step, convection_function,
                  forcing_time, mesh, constraints, locally_relevant_solution,
                  system_rhs, system_matrix, preconditioner, current_time,
                  time_step_n, files >>

\* constraints.distribute(completely_distributed_solution), a collective.
DistributeBegin(p) ==
  /\ pc[p] = "distribute"
  /\ pc' = [pc EXCEPT ![p] = "distribute_wait"]
  /\ coll' = EnterCollective(p)
  /\ UNCHANGED << configVars, time_step, convection_function, forcing_time,
                  mesh, constraints, locally_relevant_solution, system_rhs,
                  system_matrix, preconditioner,
                  completely_distributed_solution, current_time, time_step_n,
                  solver_result, files, trace >>

\* Mutant of DistributeEnd: the ghost refresh is left out.
DistributeEnd_SkipsRefresh(p) ==
  /\ pc[p] = "distribute_wait"
  /\ AllArrived(p)
  /\ completely_distributed_solution' =
       [completely_distributed_solution EXCEPT ![p].distributed = TRUE]
  /\ pc' = [pc EXCEPT ![p] = "checkpoint"]
  /\ trace' = Log(p, "distribute", time_step_n[p])
  /\ UNCHANGED << configVars, coll, time_step, convection_function,
                  forcing_time, mesh, constraints, locally_relevant_solution,
                  system_rhs, system_matrix, preconditioner, current_time,
                  time_step_n, solver_result, files >>

DistributeEnd(p) ==
  /\ pc[p] = "distribute_wait"
  /\ AllArrived(p)
  /\ completely_distributed_solution' =
       [completely_distributed_solution EXCEPT ![p].distributed = TRUE]
  /\ pc' = [pc EXCEPT ![p] = "ghost_refresh"]
  /\ trace' = Log(p, "distribute", time_step_n[p])
  /\ UNCHANGED << configVars, coll, time_step, convection_function,
                  forcing_time, mesh, constraints, locally_relevant_solution,
                  system_rhs, system_matrix, preconditioner, current_time,
                  time_step_n, solver_result, files >>

\* locally_relevant_solution = completely_distributed_solution: the import of
\* the ghost values, a collective.
GhostRefreshBegin(p) ==
  /\ pc[p] = "ghost_refresh"
  /\ pc' = [pc EXCEPT ![p] = "ghost_refresh_wait"]
  /\ coll' = EnterCollective(p)
  /\ UNCHANGED << configVars, time_step, convection_function, forcing_time,
                  mesh, constraints, locally_relevant_solution, system_rhs,
                  system_matrix, preconditioner,
                  completely_distributed_solution, current_time, time_step_n,
                  solver_result, files, trace >>

\* Mutant of GhostRefreshEnd: the collective completes but the ghosted vector
\* keeps its old values.
GhostRefreshEnd_KeepsOld(p) ==
  /\ pc[p] = "ghost_refresh_wait"
  /\ AllArrived(p)
  /\ pc' = [pc EXCEPT ![p] = "checkpoint"]
  /\ trace' = Log(p, "ghost_refresh", time_step_n[p])
  /\ UNCHANGED << configVars, coll, time_step, convection_function,
                  forcing_time, mesh, constraints, locally_relevant_solution,
                  system_rhs, system_matrix, preconditioner,
                  completely_distributed_solution, current_time, time_step_n,
                  solver_result, files >>

\* Mutant of GhostRefreshEnd: the copy returns without waiting for the others.
GhostRefreshEnd_NonBlocking(p) ==
  /\ pc[p] = "ghost_refresh_wait"
  /\ locally_relevant_solution' = [locally_relevant_solution EXCEPT ![p] =
        completely_distributed_solution[p]]
  /\ pc' = [pc EXCEPT ![p] = "checkpoint"]
  /\ trace' = Log(p, "ghost_refresh", time_step_n[p])
  /\ UNCHANGED << configVars, coll, time_step, convection_function,
                  forcing_time, mesh, constraints, system_rhs, system_matrix,
                  preconditioner, completely_distributed_solution,
                  current_time, time_step_n, solver_result, files >>

GhostRefreshEnd(p) ==
  /\ pc[p] = "ghost_refresh_wait"
  /\ AllArrived(p)
  /\ locally_relevant_solution' = [locally_relevant_solution EXCEPT ![p] =
        completely_distributed_solution[p]]
  /\ pc' = [pc EXCEPT ![p] = "checkpoint"]
  /\ trace' = Log(p, "ghost_refresh", time_step_n[p])
  /\ UNCHANGED << configVars, coll, time_step, convection_function,
                  forcing_time, mesh, constraints, system_rhs, system_matrix,
                  preconditioner, completely_distributed_solution,
                  current_time, time_step_n, solver_result, files >>

\* Mutant of Checkpoint: writing the file leaves the ghosted solution zeroed.
Checkpoint_ResetsSolution(p) ==
  /\ pc[p] = "checkpoint"
  /\ IF CheckpointDue(time_step_n[p])
       THEN /\ files' =
                 (VtuName(time_step_n[p], p) :>
                    [writer |-> p, step |-> time_step_n[p],
                     solution |-> locally_relevant_solution[p],
                     filenames |-> <<>>]) @@ files
            /\ locally_relevant_solution' =
                 [locally_relevant_solution EXCEPT ![p] = ZeroVector]
            /\ pc' = [pc EXCEPT ![p] =
                 IF p = 0 THEN "write_pvtu" ELSE "increment"]
            /\ trace' = Log(p, "write_vtu", time_step_n[p])
       ELSE /\ pc' = [pc EXCEPT ![p] = "increment"]
            /\ UNCHANGED << files, trace, locally_relevant_solution >>
  /\ UNCHANGED << configVars, coll, time_step, convection_function,
                  forcing_time, mesh, constraints, system_rhs, system_matrix,
                  preconditioner, completely_distributed_solution,
                  current_time, time_step_n, solver_result >>

\* if (time_step_n % save_interval == 0): DataOut, the subdomain vector and
\* data_out.write_vtu into this process's file.
Checkpoint(p) ==
  /\ pc[p] = "checkpoint"
  /\ IF CheckpointDue(time_step_n[p])
       THEN /\ files' =
                 (VtuName(time_step_n[p], p) :>
                    [writer |-> p, step |-> time_step_n[p],
                     solution |-> locally_relevant_solution[p],
                     filenames |-> <<>>]) @@ files
            /\ pc' = [pc EXCEPT ![p] =
                 IF p = 0 THEN "write_pvtu" ELSE "increment"]
            /\ trace' = Log(p, "write_vtu", time_step_n[p])
       ELSE /\ pc' = [pc EXCEPT ![p] = "increment"]
            /\ UNCHANGED << files, trace >>
  /\ UNCHANGED << configVars, coll, time_step, convection_function,
                  forcing_time, mesh, constraints, locally_relevant_solution,
                  system_rhs, system_matrix, preconditioner,
                  completely_distributed_solution, current_time, time_step_n,
                  solver_result >>

\* Mutant of WritePvtu: rank 0 enters a collective inside its branch.
WritePvtu_Barrier(p) ==
  /\ pc[p] = "write_pvtu"
  /\ files' =
       (PvtuName(time_step_n[p]) :>
          [writer |-> p, step |-> time_step_n[p], solution |-> NoVector,
           filenames |-> ManifestFilenames(time_step_n[p], NProcs)]) @@ files
  /\ pc' = [pc EXCEPT ![p] = "increment"]
  /\ trace' = Log(p, "write_pvtu", time_step_n[p])
  /\ coll' = EnterCollective(p)
  /\ UNCHANGED << configVars, time_step, convection_function,
                  forcing_time, mesh, constraints, locally_relevant_solution,
                  system_rhs, system_matrix, preconditioner,
                  completely_distributed_solution, current_time, time_step_n,
                  solver_result >>

\* if (this_mpi_process == 0): the manifest listing every process's file.
WritePvtu(p) ==
  /\ pc[p] = "write_pvtu"
  /\ files' =
       (PvtuName(time_step_n[p]) :>
          [writer |-> p, step |-> time_step_n[p], solution |-> NoVector,
           filenames |-> ManifestFilenames(time_step_n[p], NProcs)]) @@ files
  /\ pc' = [pc EXCEPT ![p] = "increment"]
  /\ trace' = Log(p, "write_pvtu", time_step_n[p])
  /\ UNCHANGED << configVars, coll, time_step, convection_function,
                  forcing_time, mesh, constraints, locally_relevant_solution,
                  system_rhs, system_matrix, preconditioner,
                  completely_distributed_solution, current_time, time_step_n,
                  solver_result >>

\* ++time_step_n and the loop test.
Increment(p) ==
  /\ pc[p] = "increment"
  /\ time_step_n' = [time_step_n EXCEPT ![p] = @ + 1]
  /\ pc' = [pc EXCEPT ![p] = LoopTest(time_step_n[p] + 1)]
  /\ UNCHANGED << configVars, coll, time_step, convection_function,
                  forcing_time, mesh, constraints, locally_relevant_solution,
                  system_rhs, system_matrix, preconditioner,
                  completely_distributed_solution, current_time,
                  solver_result, files, trace >>

\* ----------------------------------------------------------- specification
\* One step of process p of the SPMD program.
ProcNext(p) ==
  \/ Construct(p)
  \/ SetupGeometryBegin(p)
  \/ SetupGeometryEnd(p)
  \/ SetupConstraints(p)
  \/ SparsityBegin(p)
  \/ SparsityEnd(p)
  \/ AssembleMatrix(p)
  \/ MatrixCompressBegin(p)
  \/ MatrixCompressEnd(p)
  \/ PreconditionBegin(p)
  \/ PreconditionEnd(p)
  \/ TimeIterateBegin(p)
  \/ AdvanceTime(p)
  \/ AssembleRhs(p)
  \/ RhsCompressBegin(p)
  \/ RhsCompressEnd(p)
  \/ SolveBegin(p)
  \/ SolveEnd(p)
  \/ DistributeBegin(p)
  \/ DistributeEnd(p)
  \/ GhostRefreshBegin(p)
  \/ GhostRefreshEnd(p)
  \/ Checkpoint(p)
  \/ WritePvtu(p)
  \/ Increment(p)

Next == \E p \in Procs : ProcNext(p)

Spec == Init /\ [][Next]_vars

\* Every process is a running operating-system process: one that can take a
\* step eventually takes it.
FairSpec == Spec /\ \A p \in Procs : WF_vars(ProcNext(p))

\* ================================================================== claims
\* What the trace of a process holds.
StepsOf(p, e) ==
  LET evs == SelectSeq(trace[p], LAMBDA r : r.ev = e)
  IN  [i \in 1 .. Len(evs) |-> evs[i].step]

HasEvent(p, e, s) ==
  \E i \in 1 .. Len(trace[p]) : trace[p][i] = [ev |-> e, step |-> s]

CountEvent(p, e, s) ==
  Cardinality({i \in 1 .. Len(trace[p]) : trace[p][i] = [ev |-> e, step |-> s]})

AllDone == \A p \in Procs : pc[p] = "done"
SomeAborted == \E p \in Procs : pc[p] = "aborted"

LoopEvents ==
  {"advance_time", "assemble_rhs", "rhs_compress", "solve", "solve_failed",
   "distribute", "ghost_refresh", "write_vtu", "write_pvtu"}

\* t0 with dt added i times, one floating-point addition after the other.
RECURSIVE AddedTimes(_, _, _)
AddedTimes(t0, dt, i) ==
  IF i = 0 THEN t0 ELSE FAdd(AddedTimes(t0, dt, i - 1), dt)

\* The step indices 0, 1, ..., m - 1 in increasing order.
Iota(m) == [i \in 1 .. m |-> i - 1]

\* ---------------------------------------------------------------------- C1
\* The iterations a process has started are the step indices 0, 1, 2, ... in
\* order, never more than n_time_steps of them, and a process that is done
\* has started and finished (ghost refresh included) every one of them.
C1_Iterations ==
  \A p \in Procs :
    /\ StepsOf(p, "advance_time") = Iota(Len(StepsOf(p, "advance_time")))
    /\ Len(StepsOf(p, "advance_time")) <= parameters.n_time_steps
    /\ pc[p] = "done" =>
         /\ StepsOf(p, "advance_time") = Iota(parameters.n_time_steps)
         /\ StepsOf(p, "ghost_refresh") = Iota(parameters.n_time_steps)
         /\ time_step_n[p] = parameters.n_time_steps

\* C1: provided every solve converges, run() executes the loop body exactly
\* n_time_steps times, for the step indices 0 .. n_time_steps-1 in increasing
\* order, and then reaches Done: every run ends with all processes done or,
\* when the constructor or a solve failed, with a process aborted.
C1_LoopRunsExactlyNTimes ==
  /\ []C1_Iterations
  /\ <>(AllDone \/ SomeAborted)

C1_Witness ==
  /\ AllDone
  /\ parameters.n_time_steps = MaxSteps
  /\ \A p \in Procs : Len(StepsOf(p, "advance_time")) = MaxSteps

\* ---------------------------------------------------------------------- C2
CeilDiv(n, k) == (n + k - 1) \div k

\* The step indices for which a manifest / a per-process file is on disk.
ManifestSteps == {s \in 0 .. MaxSteps : PvtuName(s) \in DOMAIN files}
VtuSteps(p) == {s \in 0 .. MaxSteps : VtuName(s, p) \in DOMAIN files}

\* C2: a completed run with save_interval k over n steps has produced exactly
\* ceil(n / k) checkpoint sets, at the step indices 0, k, 2k, ... below n:
\* each process wrote at step s if and only if s mod k = 0.
C2_CheckpointCount ==
  AllDone =>
    LET n == parameters.n_time_steps
        k == parameters.save_interval
    IN  /\ Cardinality(ManifestSteps) = CeilDiv(n, k)
        /\ ManifestSteps = {s \in 0 .. (n - 1) : s % k = 0}
        /\ \A p \in Procs :
             /\ VtuSteps(p) = ManifestSteps
             /\ Len(StepsOf(p, "write_vtu")) = CeilDiv(n, k)
             /\ \A i \in 1 .. Len(StepsOf(p, "write_vtu")) :
                  StepsOf(p, "write_vtu")[i] = (i - 1) * k

C2_Witness ==
  /\ AllDone
  /\ parameters.n_time_steps = 3
  /\ parameters.save_interval = 2
  /\ Cardinality(ManifestSteps) = 2

\* ---------------------------------------------------------------------- C3
SetupFinished(p) == HasEvent(p, "preconditioner", 0)

\* C3: the operator is assembled exactly once per run, in setup_matrices, and
\* once setup has finished no action changes it: at every timestep it is the
\* compressed matrix setup ended with (the one the preconditioner was built
\* from).
C3_MatrixAssembledOnce ==
  \A p \in Procs :
    /\ CountEvent(p, "create_system_matrix", 0) <= 1
    /\ SetupFinished(p) =>
         /\ CountEvent(p, "create_system_matrix", 0) = 1
         /\ system_matrix[p].state = "compressed"
         /\ system_matrix[p] = preconditioner[p].from

C3_Witness ==
  \E p \in Procs :
    /\ pc[p] = "solve"
    /\ time_step_n[p] = 2
    /\ system_matrix[p].state = "compressed"

\* ---------------------------------------------------------------------- C4
\* The operation that may follow operation a in one process's time loop.
Follows(a, b) ==
  CASE a.ev = "advance_time" -> b = [ev |-> "assemble_rhs", step |-> a.step]
    [] a.ev = "assemble_rhs" -> b = [ev |-> "rhs_compress", step |-> a.step]
    [] a.ev = "rhs_compress" ->
         b.step = a.step /\ b.ev \in {"solve", "solve_failed"}
    [] a.ev = "solve" -> b = [ev |-> "distribute", step |-> a.step]
    [] a.ev = "distribute" -> b = [ev |-> "ghost_refresh", step |-> a.step]
    [] a.ev = "ghost_refresh" ->
         \/ b = [ev |-> "write_vtu", step |-> a.step]
         \/ b = [ev |-> "advance_time", step |-> a.step + 1]
    [] a.ev = "write_vtu" ->
         \/ b = [ev |-> "write_pvtu", step |-> a.step]
         \/ b = [ev |-> "advance_time", step |-> a.step + 1]
    [] a.ev = "write_pvtu" -> b = [ev |-> "advance_time", step |-> a.step + 1]
    [] a.ev = "solve_failed" -> FALSE
    [] OTHER -> TRUE

\* C4: within every timestep a process goes through rhs assembly, compress,
\* solve, distribute, ghost refresh and the optional checkpoint in this order,
\* each once per step: every operation of the loop is followed by its
\* successor in that order, and the rhs is assembled once per step.
C4_PhaseOrder ==
  \A p \in Procs :
    /\ \A i \in 1 .. (Len(trace[p]) - 1) :
         /\ trace[p][i].ev \in LoopEvents => Follows(trace[p][i], trace[p][i + 1])
         /\ trace[p][i + 1].ev \in LoopEvents =>
              \/ trace[p][i].ev \in LoopEvents
              \/ /\ trace[p][i].ev = "preconditioner"
                 /\ trace[p][i + 1] = [ev |-> "advance_time", step |-> 0]
    /\ \A s \in 0 .. MaxSteps : CountEvent(p, "assemble_rhs", s) <= 1

C4_Witness ==
  \E p \in Procs :
    /\ HasEvent(p, "write_pvtu", 0)
    /\ HasEvent(p, "ghost_refresh", 1)
    /\ ~ HasEvent(p, "write_vtu", 1)
    /\ HasEvent(p, "assemble_rhs", 2)

\* ---------------------------------------------------------------------- C5
\* C5: no process begins the rhs assembly of step n+1 before every process
\* has finished the solve and the constraint distribution of step n.
C5_StepOrdering ==
  \A p \in Procs, q \in Procs, s \in 0 .. MaxSteps :
    HasEvent(p, "assemble_rhs", s + 1) =>
      /\ HasEvent(q, "solve", s)
      /\ HasEvent(q, "distribute", s)

C5_Witness ==
  \E p \in Procs, q \in Procs :
    /\ p # q
    /\ HasEvent(p, "assemble_rhs", 1)
    /\ pc[q] = "checkpoint"
    /\ time_step_n[q] = 0

\* ---------------------------------------------------------------------- C6
\* Once the solve of step s has failed: every process is in that solve or
\* aborted, step s was assembled and solved once, nothing of step s after the
\* solve and nothing of a later step has happened, no file of step s or later
\* exists, and the checkpoints of the steps before s are on disk.
C6_AfterFailure ==
  \A s \in 0 .. MaxSteps :
    solver_result[s] = "failure" =>
      \A p \in Procs :
        /\ pc[p] \in {"solve_wait", "aborted"}
        /\ time_step_n[p] = s
        /\ CountEvent(p, "assemble_rhs", s) = 1
        /\ CountEvent(p, "solve_failed", s) <= 1
        /\ pc[p] = "aborted" => CountEvent(p, "solve_failed", s) = 1
        /\ \A e \in {"solve", "distribute", "ghost_refresh", "write_vtu",
                     "write_pvtu"} : ~ HasEvent(p, e, s)
        /\ \A i \in 1 .. Len(trace[p]) :
             trace[p][i].ev \in LoopEvents => trace[p][i].step <= s
        /\ \A s2 \in s .. MaxSteps :
             /\ VtuName(s2, p) \notin DOMAIN files
             /\ PvtuName(s2) \notin DOMAIN files
        /\ \A s1 \in 0 .. (s - 1) :
             CheckpointDue(s1) =>
               /\ VtuName(s1, p) \in DOMAIN files
               /\ PvtuName(s1) \in DOMAIN files

\* After a failed solve no step changes the files on disk.
C6_FilesKept ==
  (\E s \in 0 .. MaxSteps : solver_result[s] = "failure") => files' = files

\* C6: when the solver does not converge at step n the run terminates: step n
\* is not retried, no distribute, ghost refresh or checkpoint happens for it,
\* no later step starts on any process, and the checkpoints written before
\* remain as they were.
C6_SolverFailureIsFatal ==
  /\ []C6_AfterFailure
  /\ [][C6_FilesKept]_vars

C6_Witness ==
  /\ solver_result[2] = "failure"
  /\ \A p \in Procs : pc[p] = "aborted"
  /\ PvtuName(0) \in DOMAIN files
  /\ PvtuName(1) \in DOMAIN files

\* ---------------------------------------------------------------------- C7
\* C7: a convection-field specification that does not hold exactly one comma
\* (two clauses) aborts construction; only one with exactly two clauses gets
\* past the constructor.
C7_MalformedFieldIsFatal ==
  \A p \in Procs :
    pc[p] \notin {"main", "aborted"} =>
      CountChar(parameters.convection_field, ",") = 1

\* ---------------------------------------------------------------------- C8
\* The names listed in the manifest of step s.
ListedIn(s) ==
  {files[PvtuName(s)].filenames[i] :
     i \in 1 .. Len(files[PvtuName(s)].filenames)}

\* The per-process files on disk that were written at step s.
WrittenAt(s) ==
  {f \in DOMAIN files : files[f].step = s /\ f # PvtuName(s)}

\* C8: at every checkpointed step every process has written exactly one
\* per-process file, rank 0 and nobody else has written the one manifest, and
\* the manifest lists exactly the per-process files written at that step, one
\* for each of the ranks 0 .. P-1.
C8_ManifestMatchesFiles ==
  \A s \in 0 .. MaxSteps :
    ((\A p \in Procs : time_step_n[p] > s) /\ CheckpointDue(s)) =>
      /\ \A p \in Procs :
           /\ CountEvent(p, "write_vtu", s) = 1
           /\ VtuName(s, p) \in DOMAIN files
           /\ files[VtuName(s, p)].writer = p
           /\ CountEvent(p, "write_pvtu", s) = (IF p = 0 THEN 1 ELSE 0)
      /\ PvtuName(s) \in DOMAIN files
      /\ files[PvtuName(s)].writer = 0
      /\ Len(files[PvtuName(s)].filenames) = NProcs
      /\ ListedIn(s) = WrittenAt(s)
      /\ ListedIn(s) = {VtuName(s, p) : p \in Procs}
      /\ Cardinality(WrittenAt(s)) = NProcs

C8_Witness ==
  /\ \A p \in Procs : time_step_n[p] = 2
  /\ parameters.save_interval = 1
  /\ Cardinality(WrittenAt(1)) = NProcs
  /\ PvtuName(1) \in DOMAIN files

\* ---------------------------------------------------------------------- C9
SimulationState ==
  << locally_relevant_solution, completely_distributed_solution, system_rhs,
     system_matrix, constraints, current_time, forcing_time >>

\* A step of the checkpoint branch leaves the simulation state as it was.
C9_CheckpointFrame ==
  \A p \in Procs :
    (pc[p] \in {"checkpoint", "write_pvtu"} /\ pc'[p] # pc[p]) =>
      SimulationState' = SimulationState

\* The ghosted solution after m refreshes is the one m steps from the zero
\* start produce, whatever save_interval is.
C9_SolutionBySteps ==
  \A p \in Procs :
    locally_relevant_solution[p].init =>
      locally_relevant_solution[p].val =
        [i \in 1 .. Len(StepsOf(p, "ghost_refresh")) |->
           AddedTimes(parameters.start_time, time_step[p], i)]

\* C9: checkpointing never feeds back into the simulation state: the
\* checkpoint branch leaves the ghosted and the owned solution, the rhs, the
\* matrix, the constraints, the current time and the forcing time unchanged,
\* so the sequence of solution states does not depend on save_interval.
C9_CheckpointIsSideEffectOnly ==
  /\ [][C9_CheckpointFrame]_vars
  /\ []C9_SolutionBySteps

C9_Witness ==
  \E p \in Procs :
    /\ pc[p] = "increment"
    /\ parameters.save_interval = 2
    /\ HasEvent(p, "write_vtu", 2)
    /\ Len(locally_relevant_solution[p].val) = 3

\* --------------------------------------------------------------------- C10
\* C10: with a spatial dimension other than 2 construction aborts: no process
\* gets past the constructor, no mesh is built, no operator is assembled, no
\* timestep runs and nothing is written.
C10_OnlyDimensionTwo ==
  dim # 2 =>
    /\ files = << >>
    /\ \A p \in Procs :
         /\ pc[p] \in {"main", "aborted"}
         /\ mesh[p] = "none"
         /\ system_matrix[p] = NoMatrix
         /\ \A i \in 1 .. Len(trace[p]) : trace[p][i].ev = "construct"

C10_Witness ==
  /\ dim = 3
  /\ ~ debug_build
  /\ \A p \in Procs : pc[p] = "aborted"

\* --------------------------------------------------------------------- C11
\* Right after the rhs assembly of step n the load vector was built from the
\* ghosted solution, which is the zero vector for n = 0 and otherwise the
\* owned solution as step n-1's distribute left it (n steps long).
C11_AssemblyReadsLastDistribute ==
  \A p \in Procs :
    pc[p] = "rhs_compress" =>
      /\ system_rhs[p].prev = locally_relevant_solution[p].val
      /\ Len(system_rhs[p].prev) = time_step_n[p]
      /\ IF time_step_n[p] = 0
           THEN locally_relevant_solution[p] = ZeroVector
           ELSE /\ locally_relevant_solution[p] =
                     completely_distributed_solution[p]
                /\ locally_relevant_solution[p].distributed
                /\ HasEvent(p, "distribute", time_step_n[p] - 1)

\* The ghosted solution changes only in setup_geometry's reinit and in the
\* ghost refresh that follows distribute.
C11_GhostWrittenByRefreshOnly ==
  \A p \in Procs :
    locally_relevant_solution'[p] # locally_relevant_solution[p] =>
      \/ pc[p] = "setup_geometry_wait"
      \/ /\ pc[p] = "ghost_refresh_wait"
         /\ pc'[p] = "checkpoint"
         /\ HasEvent(p, "distribute", time_step_n[p])
         /\ CountEvent(p, "ghost_refresh", time_step_n[p]) = 0

\* C11: at every rhs assembly of step n >= 1 the ghosted solution read is the
\* result of step n-1's constraint distribution (the zero vector for step 0),
\* and the ghosted solution is written only by the one ghost refresh that
\* follows distribute, once per step.
C11_GhostReflectsLastDistribute ==
  /\ []C11_AssemblyReadsLastDistribute
  /\ [][C11_GhostWrittenByRefreshOnly]_vars
  /\ [](\A p \in Procs, s \in 0 .. MaxSteps :
          CountEvent(p, "ghost_refresh", s) <= 1)

C11_Witness ==
  \E p \in Procs :
    /\ pc[p] = "rhs_compress"
    /\ time_step_n[p] = 2
    /\ Len(system_rhs[p].prev) = 2
    /\ locally_relevant_solution[p].distributed

\* --------------------------------------------------------------------- C12
\* The positions at which the next statement uses the constraints:
\* make_sparsity_pattern, create_system_matrix, create_system_rhs and
\* constraints.distribute.
ConstraintUsePcs ==
  {"sparsity", "assemble_matrix", "assemble_rhs", "distribute",
   "distribute_wait"}

\* At every use the constraints are closed, the operator was condensed with
\* closed constraints, and the constraints are built once.
C12_ClosedAtUse ==
  \A p \in Procs :
    /\ pc[p] \in ConstraintUsePcs => constraints[p] = "closed"
    /\ system_matrix[p].state \in {"assembled", "compressed"} =>
         system_matrix[p].condensed
    /\ CountEvent(p, "constraints_close", 0) <= 1
    /\ constraints[p] = "closed" <=> HasEvent(p, "constraints_close", 0)
    /\ \A i \in 1 .. Len(trace[p]) :
         trace[p][i].ev \in {"sparsity", "create_system_matrix",
                             "assemble_rhs", "distribute"} =>
           \E j \in 1 .. (i - 1) : trace[p][j].ev = "constraints_close"

\* Once closed, the constraints are not cleared, reopened or modified.
C12_StaysClosed ==
  \A p \in Procs : constraints[p] = "closed" => constraints'[p] = "closed"

\* C12: the constraint set is closed before every use (sparsity pattern,
\* operator assembly, every rhs assembly, every distribute) and is never
\* cleared, reopened or modified after that close.
C12_ConstraintsClosedBeforeUse ==
  /\ []C12_ClosedAtUse
  /\ [][C12_StaysClosed]_vars

C12_Witness ==
  \E p \in Procs :
    /\ pc[p] = "distribute_wait"
    /\ time_step_n[p] = 1
    /\ constraints[p] = "closed"

\* --------------------------------------------------------------------- C13
\* The position of the first operation e in the trace of p (0 when absent).
FirstIndex(p, e) ==
  IF \E i \in 1 .. Len(trace[p]) : trace[p][i].ev = e
    THEN CHOOSE i \in 1 .. Len(trace[p]) :
           /\ trace[p][i].ev = e
           /\ \A j \in 1 .. (i - 1) : trace[p][j].ev # e
    ELSE 0

\* The preconditioner is built at most once, after the operator's assembly
\* and compress and before any solve, from the compressed matrix; a process
\* about to solve or solving holds that preconditioner and that matrix.
C13_BuiltFromCompressedMatrix ==
  \A p \in Procs :
    /\ CountEvent(p, "preconditioner", 0) <= 1
    /\ preconditioner[p].built <=> HasEvent(p, "preconditioner", 0)
    /\ preconditioner[p].built =>
         /\ preconditioner[p].from.state = "compressed"
         /\ 0 < FirstIndex(p, "create_system_matrix")
         /\ FirstIndex(p, "create_system_matrix")
              < FirstIndex(p, "matrix_compress")
         /\ FirstIndex(p, "matrix_compress") < FirstIndex(p, "preconditioner")
    /\ \A i \in 1 .. Len(trace[p]) :
         trace[p][i].ev \in {"solve", "solve_failed"} =>
           /\ 0 < FirstIndex(p, "preconditioner")
           /\ FirstIndex(p, "preconditioner") < i
    /\ pc[p] \in {"solve", "solve_wait"} =>
         /\ preconditioner[p].built
         /\ system_matrix[p].state = "compressed"
         /\ preconditioner[p].from = system_matrix[p]

\* Once built, the preconditioner is never built again or changed.
C13_PreconditionerKept ==
  \A p \in Procs :
    preconditioner[p].built => preconditioner'[p] = preconditioner[p]

\* C13: the preconditioner is built exactly once per run, after the operator
\* has been assembled and compressed and before the first solve, and every
\* solve of every timestep uses that preconditioner and that matrix.
C13_PreconditionerBuiltOnce ==
  /\ []C13_BuiltFromCompressedMatrix
  /\ [][C13_PreconditionerKept]_vars

C13_Witness ==
  \E p \in Procs :
    /\ pc[p] = "solve_wait"
    /\ time_step_n[p] = 2
    /\ preconditioner[p].built
    /\ HasEvent(p, "solve", 1)

\* --------------------------------------------------------------------- C14
\* The positions of an iteration after its clocks were advanced.
AdvancedPcs ==
  {"assemble_rhs", "rhs_compress", "rhs_compress_wait", "solve", "solve_wait",
   "distribute", "distribute_wait", "ghost_refresh", "ghost_refresh_wait",
   "checkpoint", "write_pvtu", "increment"}

\* C14 as stated: at the rhs assembly of step n the loop's clock and the
\* forcing time both equal start_time + (n+1)*dt, and after the last
\* iteration both equal start_time + n_time_steps*dt.
C14_ClocksEqualExactProduct ==
  \A p \in Procs :
    /\ pc[p] = "assemble_rhs" =>
         /\ current_time[p] =
              parameters.start_time + (time_step_n[p] + 1) * time_step[p]
         /\ forcing_time[p] =
              parameters.start_time + (time_step_n[p] + 1) * time_step[p]
    /\ pc[p] = "done" =>
         /\ current_time[p] =
              parameters.start_time + parameters.n_time_steps * time_step[p]
         /\ forcing_time[p] =
              parameters.start_time + parameters.n_time_steps * time_step[p]

\* The two clocks agree: in iteration n, from the rhs assembly on, both are
\* start_time with dt added n+1 times, after the loop both are start_time
\* with dt added n_time_steps times, and the load vector is built for that
\* time.
C14_ClocksAgree ==
  \A p \in Procs :
    /\ pc[p] \in AdvancedPcs =>
         /\ current_time[p] = forcing_time[p]
         /\ forcing_time[p] =
              AddedTimes(parameters.start_time, time_step[p],
                         time_step_n[p] + 1)
    /\ pc[p] \in AdvancedPcs \ {"assemble_rhs"} =>
         system_rhs[p].t = forcing_time[p]
    /\ pc[p] = "done" =>
         /\ current_time[p] = forcing_time[p]
         /\ forcing_time[p] =
              AddedTimes(parameters.start_time, time_step[p],
                         parameters.n_time_steps)
    /\ \A s \in 0 .. MaxSteps : CountEvent(p, "advance_time", s) <= 1

\* The forcing time changes only when the constructor sets it and when an
\* iteration advances it by dt, together with the loop's clock.
C14_ForcingAdvancedWithClock ==
  \A p \in Procs :
    forcing_time'[p] # forcing_time[p] =>
      \/ pc[p] = "main"
      \/ /\ pc[p] = "advance_time"
         /\ forcing_time'[p] = FAdd(forcing_time[p], time_step[p])
         /\ current_time'[p] = FAdd(current_time[p], time_step[p])

\* C14 (amended): the forcing time stays in step with the loop's clock: at
\* the rhs assembly of step n both equal start_time with dt added n+1 times
\* in floating-point arithmetic, after the last iteration both equal
\* start_time with dt added n_time_steps times, and the forcing time is
\* advanced once per iteration and never otherwise.
C14_ForcingTimeInStep ==
  /\ []C14_ClocksAgree
  /\ [][C14_ForcingAdvancedWithClock]_vars

\* An rhs assembly at which an addition has rounded.
C14_Witness ==
  \E p \in Procs :
    /\ pc[p] = "assemble_rhs"
    /\ time_step_n[p] >= 1
    /\ current_time[p] = forcing_time[p]
    /\ current_time[p] #
         parameters.start_time + (time_step_n[p] + 1) * time_step[p]

\* --------------------------------------------------------------------- C15
\* In the trace of p the operation a of step s comes before the operation b
\* of step s.
Precedes(p, a, b, s) ==
  \E i \in 1 .. Len(trace[p]), j \in 1 .. Len(trace[p]) :
    /\ i < j
    /\ trace[p][i] = [ev |-> a, step |-> s]
    /\ trace[p][j] = [ev |-> b, step |-> s]

\* The per-process file labelled s was written by its process in iteration
\* s after that iteration's solve, distribute and ghost refresh, and holds
\* the distributed solution of time level s+1, the one whose last load
\* vector was built for the loop's clock of iteration s.
C15_FileHoldsStepResult ==
  \A p \in Procs, s \in 0 .. MaxSteps :
    VtuName(s, p) \in DOMAIN files =>
      LET f == files[VtuName(s, p)]
      IN  /\ f.writer = p
          /\ f.step = s
          /\ Precedes(p, "solve", "distribute", s)
          /\ Precedes(p, "distribute", "ghost_refresh", s)
          /\ Precedes(p, "ghost_refresh", "write_vtu", s)
          /\ f.solution.init
          /\ f.solution.distributed
          /\ Len(f.solution.val) = s + 1
          /\ f.solution.val[s + 1] =
               AddedTimes(parameters.start_time, time_step[p], s + 1)

\* No file holds the initial state: nothing is on disk before a process has
\* refreshed its ghosts in step 0, and no file holds the zero start vector.
C15_InitialStateNotWritten ==
  /\ (\A p \in Procs : ~ HasEvent(p, "ghost_refresh", 0)) => DOMAIN files = {}
  /\ \A f \in DOMAIN files :
       /\ files[f].solution # ZeroVector
       /\ files[f].writer # 0 => files[f].solution.val # <<>>
       /\ f \in {VtuName(s, p) : s \in 0 .. MaxSteps, p \in Procs}
                  \cup {PvtuName(s) : s \in 0 .. MaxSteps}

WaitPcs ==
  {"setup_geometry_wait", "sparsity_wait", "matrix_compress_wait",
   "precondition_wait", "rhs_compress_wait", "solve_wait", "distribute_wait",
   "ghost_refresh_wait"}

\* The collective a logged operation stands for ("none" for local work); a
\* solve that threw was the same collective as one that returned.
CollectiveOf(e) ==
  CASE e \in {"setup_geometry", "sparsity", "matrix_compress",
              "preconditioner", "rhs_compress", "solve", "distribute",
              "ghost_refresh"} -> e
    [] e = "solve_failed" -> "solve"
    [] OTHER -> "none"

\* The collective a blocked process is inside.
CollectiveAt(w) ==
  CASE w = "setup_geometry_wait" -> "setup_geometry"
    [] w = "sparsity_wait" -> "sparsity"
    [] w = "matrix_compress_wait" -> "matrix_compress"
    [] w = "precondition_wait" -> "preconditioner"
    [] w = "rhs_compress_wait" -> "rhs_compress"
    [] w = "solve_wait" -> "solve"
    [] w = "distribute_wait" -> "distribute"
    [] w = "ghost_refresh_wait" -> "ghost_refresh"
    [] OTHER -> "none"

\* The sequence of collectives process p has issued so far: the ones it has
\* left, then the one it is blocked in.
Issued(p) ==
  LET left == SelectSeq(trace[p], LAMBDA r : CollectiveOf(r.ev) # "none")
      kinds == [i \in 1 .. Len(left) |->
                  [ev |-> CollectiveOf(left[i].ev), step |-> left[i].step]]
  IN  IF pc[p] \in WaitPcs
        THEN Append(kinds, [ev |-> CollectiveAt(pc[p]), step |-> time_step_n[p]])
        ELSE kinds

\* Any two processes have issued the same collectives as far as both have
\* come, and the count of entered collectives is the length of that sequence.
C16_SameSequence ==
  \A p \in Procs, q \in Procs :
    /\ Len(Issued(p)) = coll[p]
    /\ Len(Issued(p)) <= Len(Issued(q)) =>
         Issued(p) = SubSeq(Issued(q), 1, Len(Issued(p)))

\* Every rank that has passed the checkpoint test of step s has taken the
\* same branch, the one CheckpointDue(s) selects.
C16_SameCheckpointBranch ==
  \A p \in Procs, s \in 0 .. MaxSteps :
    (HasEvent(p, "ghost_refresh", s)
       /\ ~ (pc[p] = "checkpoint" /\ time_step_n[p] = s)) =>
      (HasEvent(p, "write_vtu", s) <=> CheckpointDue(s))

\* The checkpoint branch and the rank-0 branch enter no collective.
C16_BranchesAreLocal ==
  \A p \in Procs :
    (pc[p] \in {"checkpoint", "write_pvtu"} /\ pc'[p] # pc[p]) =>
      /\ coll' = coll
      /\ pc'[p] \notin WaitPcs

\* C16: all processes issue the same sequence of collectives; the rank-0
\* branch and the checkpoint branch contain no collective and the checkpoint
\* condition is the same on every rank, so no process stays blocked forever
\* in a collective.
C16_NoMismatchedCollective ==
  /\ [](C16_SameSequence /\ C16_SameCheckpointBranch)
  /\ [][C16_BranchesAreLocal]_vars
  /\ \A p \in Procs : []<>(pc[p] \notin WaitPcs)

\* Rank 0 is still writing the manifest of a step while another rank, which
\* skipped that branch, is already blocked in the next step's first
\* collective.
C16_Witness ==
  \E q \in Procs :
    /\ pc[0] = "write_pvtu"
    /\ pc[q] = "rhs_compress_wait"
    /\ time_step_n[q] = time_step_n[0] + 1
    /\ Len(Issued(q)) = Len(Issued(0)) + 1

====
